---- MODULE Spec2Model ----
(***************************************************************************)
(* The book-generation workflow controller (component App) together with   *)
(* the views that gate its handlers, the Content Generator service and the  *)
(* Draft Store (localStorage under DRAFT_KEY).                              *)
(*                                                                          *)
(* Every asynchronous handler is split at its awaits: the synchronous part  *)
(* up to the first await is one action, and each completion (the promise    *)
(* resolving or rejecting) is another.  A handler that is suspended at an   *)
(* await is an entry of `pending`; it carries the values its closure        *)
(* captured when it was invoked, because the continuation reads those and   *)
(* not the state of the render that is current when it resumes.             *)
(* The save effect runs after every render whose dependencies changed, so   *)
(* it is part of every action (operator Render).                            *)
(***************************************************************************)
EXTENDS Integers, Sequences, FiniteSets, TLC

(* ------------------------------ bounds --------------------------------- *)
\* pages of a book; disturbances of a run (see the variable); pages plus disturbances
MaxBookPages == 4
MaxDisturbances == 3
MaxRun == 5

(* ------------------------ limits of the setup form --------------------- *)
\* <input type="number" min="1" max="20"> and max="15"
MaxNumChapters == 20
MaxNumPagesPerChapter == 15

(* ------------------------------ AppState -------------------------------- *)
SETUP == 0
OUTLINE == 1
WRITING == 2
FINAL == 3

(* ------------------------------ values ---------------------------------- *)
Null == [null |-> TRUE]

\* error: null or one of the messages the handlers pass to handleError
NoError == "none"
ErrGenerator == "generator"
ErrSave == "save"
ErrCorrupt == "corrupt"

\* Page texts.  '' is EmptyText; an array slot never assigned is Hole; JSON turns
\* a hole into null (NullCell).
EmptyText == [src |-> "empty", c |-> 0, p |-> 0, rev |-> 0]
Hole == [src |-> "hole", c |-> 0, p |-> 0, rev |-> 0]
NullCell == [src |-> "null", c |-> 0, p |-> 0, rev |-> 0]

\* JavaScript truthiness of an array slot or string
Truthy(t) == t \notin {EmptyText, Hole, NullCell}

MatterFields ==
  {"copyright", "dedication", "acknowledgments", "introduction",
   "conclusion", "appendix", "glossary", "authorBio"}
FrontFields == {"copyright", "dedication", "acknowledgments", "introduction"}
BackFields == {"conclusion", "appendix", "glossary", "authorBio"}

\* { ...a, ...b }
Spread(a, b) ==
  [f \in (DOMAIN a) \cup (DOMAIN b) |-> IF f \in DOMAIN b THEN b[f] ELSE a[f]]

(* --------------------------- Content Generator -------------------------- *)
\* What the service can answer.  Only the shape matters to the controller:
\* the length of outline.chapters is whatever the model returned.
\* Asked for numChapters chapters it returns that many, or one fewer.
OutlineAnswers(kind, details) ==
  { [nch |-> k, by |-> kind] : k \in (details.numChapters - 1)..details.numChapters }

\* writePage reads outline.chapters[chapterIndex].title while it builds the
\* prompt: with no such chapter it throws before any request is sent.
WritePageCanAnswer(outline, chapterIndex) == chapterIndex < outline.nch

WritePageAnswer(chapterIndex, pageIndex) ==
  [src |-> "w", c |-> chapterIndex, p |-> pageIndex, rev |-> 0]

RevisePageAnswer(originalContent) == [originalContent EXCEPT !.rev = @ + 1]

FrontMatterAnswer == [f \in FrontFields |-> "generated"]
BackMatterAnswer == [f \in BackFields |-> "generated"]

\* reviseFullBook builds its prompt with content.map(pages => pages.map(p =>
\* p.substring(0, 100))): map skips holes, and substring of null throws.
ReviseFullBookCanAnswer(content) ==
  \A i \in DOMAIN content : \A j \in DOMAIN content[i] : content[i][j] # NullCell

(* ------------------------------- state ---------------------------------- *)
VARIABLES
  appState, bookDetails, bookOutline, bookContent, bookMatter,
  currentPageContent, currentChapterIndex, currentPageIndex,
  viewedChapterIndex, viewedPageIndex,
  isLoading, error, hasDraft,
  draft,          \* localStorage[DRAFT_KEY]
  pending,        \* handlers suspended at an await
  revisionTimer,  \* the setTimeout of handleFinalRevision is armed
  disturbances,   \* what has taken the run off the plain path of writing a book
                  \* page after page, so far: revise calls issued, writes to the
                  \* store that failed, calls started while another was outstanding
  approveCalls    \* history: how often handleApproveAndContinue was invoked since
                  \* handleStartWriting last succeeded, while no generator call has
                  \* failed and the session is the same; -1 otherwise

vars ==
  <<appState, bookDetails, bookOutline, bookContent, bookMatter,
    currentPageContent, currentChapterIndex, currentPageIndex,
    viewedChapterIndex, viewedPageIndex, isLoading, error, hasDraft,
    draft, pending, revisionTimer, disturbances, approveCalls>>

\* The ten fields handleSaveDraft puts into a SavedState
SavedState ==
  [appState |-> appState, bookDetails |-> bookDetails, bookOutline |-> bookOutline,
   bookContent |-> bookContent, bookMatter |-> bookMatter,
   currentPageContent |-> currentPageContent,
   currentChapterIndex |-> currentChapterIndex, currentPageIndex |-> currentPageIndex,
   viewedChapterIndex |-> viewedChapterIndex, viewedPageIndex |-> viewedPageIndex]

\* The useState initial values
InitialState ==
  [appState |-> SETUP, bookDetails |-> Null, bookOutline |-> Null,
   bookContent |-> << >>, bookMatter |-> Null,
   currentPageContent |-> EmptyText,
   currentChapterIndex |-> 0, currentPageIndex |-> 0,
   viewedChapterIndex |-> 0, viewedPageIndex |-> 0]

(* ----------------------------- Draft Store ------------------------------ *)
Absent == [absent |-> TRUE]
CorruptDraft == [corrupt |-> TRUE]

\* JSON.stringify of a string[][]: a hole is written as null
StringifyContent(content) ==
  [i \in DOMAIN content |->
     [j \in DOMAIN content[i] |->
        IF content[i][j] = Hole THEN NullCell ELSE content[i][j]]]

\* JSON.stringify(stateToSave)
Stringify(s) == [json |-> [s EXCEPT !.bookContent = StringifyContent(@)]]

\* JSON.parse(savedDraft); throws on a corrupt entry
ParseThrows(d) == "json" \notin DOMAIN d
Parse(d) == d.json

(* ------------------------------ helpers --------------------------------- *)
\* Array(numChapters).fill(null).map(() => [])
EmptyChapters(numChapters) == [i \in 1..numChapters |-> << >>]

\* content.map(chapter => [...chapter]); if (!copy[c]) copy[c] = []; copy[c][p] = t
\* Assigning past the end of an array leaves holes in between.
SetSlot(chapter, p, t) ==
  [j \in 1..(IF p + 1 > Len(chapter) THEN p + 1 ELSE Len(chapter)) |->
     IF j = p + 1 THEN t ELSE IF j <= Len(chapter) THEN chapter[j] ELSE Hole]

SetPage(content, c, p, t) ==
  [i \in 1..(IF c + 1 > Len(content) THEN c + 1 ELSE Len(content)) |->
     IF i = c + 1 THEN SetSlot(IF i <= Len(content) THEN content[i] ELSE << >>, p, t)
     ELSE IF i <= Len(content) THEN content[i] ELSE << >>]

\* bookContent[c]?.[p] || ''
PageOrEmpty(content, c, p) ==
  IF c >= 0 /\ c < Len(content) /\ p >= 0 /\ p < Len(content[c + 1]) /\ Truthy(content[c + 1][p + 1])
  THEN content[c + 1][p + 1]
  ELSE EmptyText

RemoveAt(seq, i) == [j \in 1..(Len(seq) - 1) |-> IF j < i THEN seq[j] ELSE seq[j + 1]]

(* ---------------------- render and the save effect ---------------------- *)
\* The state setters of one handler step, batched into one render.
SetState(s) ==
  /\ appState' = s.appState
  /\ bookDetails' = s.bookDetails
  /\ bookOutline' = s.bookOutline
  /\ bookContent' = s.bookContent
  /\ bookMatter' = s.bookMatter
  /\ currentPageContent' = s.currentPageContent
  /\ currentChapterIndex' = s.currentChapterIndex
  /\ currentPageIndex' = s.currentPageIndex
  /\ viewedChapterIndex' = s.viewedChapterIndex
  /\ viewedPageIndex' = s.viewedPageIndex

\* How many disturbances a run over a book of these details may hold
Room(details) ==
  LET left == MaxRun - details.numChapters * details.numPagesPerChapter
  IN IF left < MaxDisturbances THEN left ELSE MaxDisturbances

\* handleSaveDraft as created by the render whose state is s, run against the
\* stored value d when the step has added `used` to disturbances already:
\* the set of <<stored value, has this write failed>> it can end with.
\* localStorage.setItem throws when the quota is exceeded.
SaveOutcomes(s, d, used) ==
  IF s.bookDetails = Null \/ s.bookOutline = Null
  THEN { <<d, FALSE>> }
  ELSE { <<Stringify(s), FALSE>> }
       \cup (IF disturbances + used < Room(s.bookDetails) THEN { <<d, TRUE>> } ELSE {})

\* As Render, but the save effect runs only when bookContent or bookMatter was
\* given a new value
RenderSavingNewContentOnly(s, fresh, loading, err, d, used) ==
  /\ SetState(s)
  /\ IF fresh /\ s.appState \in {WRITING, FINAL}
     THEN \E o \in SaveOutcomes(s, d, used) :
            /\ draft' = o[1]
            /\ isLoading' = (IF o[2] THEN FALSE ELSE loading)
            /\ error' = (IF o[2] THEN ErrSave ELSE err)
            /\ disturbances' = disturbances + used + (IF o[2] THEN 1 ELSE 0)
     ELSE /\ draft' = d
          /\ isLoading' = loading
          /\ error' = err
          /\ disturbances' = disturbances + used

\* One render after a handler step set the state to s, the in-flight flag to
\* loading and the error to err, and left d in the store; `fresh` says the step
\* passed a new array or object to setBookContent / setBookMatter.  The save
\* effect (deps bookContent, currentPageContent, bookMatter, handleSaveDraft,
\* appState) then runs handleSaveDraft in the Writing and Final phases; a failed
\* write goes through handleError, which also clears the in-flight flag.
Render(s, fresh, loading, err, d, used) ==
  /\ SetState(s)
  /\ IF (fresh \/ s # SavedState) /\ s.appState \in {WRITING, FINAL}
     THEN \E o \in SaveOutcomes(s, d, used) :
            /\ draft' = o[1]
            /\ isLoading' = (IF o[2] THEN FALSE ELSE loading)
            /\ error' = (IF o[2] THEN ErrSave ELSE err)
            /\ disturbances' = disturbances + used + (IF o[2] THEN 1 ELSE 0)
     ELSE /\ draft' = d
          /\ isLoading' = loading
          /\ error' = err
          /\ disturbances' = disturbances + used

(* ------------------------------- Init ----------------------------------- *)
\* Mounting App: the useState initial values, then the mount effect reads the
\* store to decide whether to offer the saved draft.
Mount(d) ==
  /\ SetState(InitialState)
  /\ isLoading' = FALSE
  /\ error' = NoError
  /\ hasDraft' = (d # Absent)
  /\ draft' = d
  /\ pending' = << >>
  /\ revisionTimer' = FALSE
  /\ approveCalls' = -1

Init ==
  /\ appState = SETUP
  /\ bookDetails = Null
  /\ bookOutline = Null
  /\ bookContent = << >>
  /\ bookMatter = Null
  /\ currentPageContent = EmptyText
  /\ currentChapterIndex = 0
  /\ currentPageIndex = 0
  /\ viewedChapterIndex = 0
  /\ viewedPageIndex = 0
  /\ isLoading = FALSE
  /\ error = NoError
  /\ draft \in {Absent, CorruptDraft}
  /\ hasDraft = (draft # Absent)
  /\ pending = << >>
  /\ revisionTimer = FALSE
  /\ disturbances = 0
  /\ approveCalls = -1

\* The user reloads the page: the session's state and its requests are gone,
\* the store is kept.
Reload ==
  /\ Mount(draft)
  /\ UNCHANGED disturbances

(* ------------------------- which view is shown -------------------------- *)
\* The LoadingSpinner overlay covers the page while isLoading, and the buttons
\* of every view are disabled by it.
Interactive == ~isLoading

SetupFormShown == appState = SETUP
OutlineViewShown == appState = OUTLINE /\ bookOutline # Null
\* WritingView reads bookOutline.chapters[viewedChapterIndex].title
WritingViewShown ==
  /\ appState = WRITING /\ bookDetails # Null /\ bookOutline # Null
  /\ viewedChapterIndex < bookOutline.nch
FinalBookViewShown == appState = FINAL /\ bookDetails # Null /\ bookOutline # Null

\* A handler reaches its first await: the request is outstanding from here on.
\* `used` is what the step adds to disturbances.
Overlap == IF pending = << >> THEN 0 ELSE 1

StartCall(call, used, details) ==
  /\ used = 0 \/ disturbances + used <= Room(details)
  /\ pending' = Append(pending, call)

(* ------------------------ handleStartOutlineGeneration ------------------ *)
\* What the user can have typed into the form when submitting it: each required
\* text empty or not, each number small, or the largest its input allows, or
\* just outside the range on either side.
EnteredTexts == {"", "text"}
EnteredNumbers(max) == (0..MaxBookPages) \cup {max, max + 1}

EnteredDetails ==
  [theme : EnteredTexts, audience : EnteredTexts, penName : EnteredTexts,
   numChapters : EnteredNumbers(MaxNumChapters),
   numPagesPerChapter : EnteredNumbers(MaxNumPagesPerChapter)]

\* The browser's validation of the form on submit: the attributes required,
\* min and max of its inputs.  handleSubmit runs only when it passes.
FormValid(d) ==
  /\ d.theme # "" /\ d.audience # "" /\ d.penName # ""
  /\ d.numChapters >= 1 /\ d.numChapters <= MaxNumChapters
  /\ d.numPagesPerChapter >= 1 /\ d.numPagesPerChapter <= MaxNumPagesPerChapter

\* The details the form lets through, for books of at most MaxBookPages pages.
AcceptedDetails ==
  { d \in EnteredDetails :
      FormValid(d) /\ d.numChapters * d.numPagesPerChapter <= MaxBookPages }

\* hadDraft is history: the store held an entry when the handler was invoked
HandleStartOutlineGeneration(details) ==
  /\ StartCall([kind |-> "generateOutline", details |-> details,
                hadDraft |-> draft # Absent], Overlap, details)
  /\ hasDraft' = FALSE
  /\ Render(SavedState, FALSE, TRUE, NoError, Absent, Overlap)
  /\ UNCHANGED <<revisionTimer, approveCalls>>

OutlineGenerated(i, outline) ==
  /\ pending[i].kind = "generateOutline"
  /\ pending' = RemoveAt(pending, i)
  /\ Render([SavedState EXCEPT !.bookDetails = pending[i].details,
                               !.bookOutline = outline,
                               !.appState = OUTLINE],
            FALSE, FALSE, error, draft, 0)
  /\ UNCHANGED <<hasDraft, revisionTimer, approveCalls>>

\* Every catch block: handleError(message), then the finally clears the flag
HandlerCaught(i, kinds) ==
  /\ pending[i].kind \in kinds
  /\ pending' = RemoveAt(pending, i)
  /\ Render(SavedState, FALSE, FALSE, ErrGenerator, draft, 0)
  /\ approveCalls' = -1
  /\ UNCHANGED <<hasDraft, revisionTimer>>

OutlineGenerationFailed(i) == HandlerCaught(i, {"generateOutline"})

\* As ClickGenerateOutline, but the form is submitted without validation
ClickGenerateOutlineUnvalidated ==
  /\ SetupFormShown /\ Interactive
  /\ \E details \in EnteredDetails :
       /\ details.numChapters * details.numPagesPerChapter <= MaxBookPages
       /\ HandleStartOutlineGeneration(details)

\* Submitting the form: InitialSetupForm.handleSubmit runs, and passes the
\* details on, only when the form is valid
ClickGenerateOutline ==
  /\ SetupFormShown /\ Interactive
  /\ \E details \in AcceptedDetails : HandleStartOutlineGeneration(details)

(* ----------------------------- OutlineView ------------------------------ *)
\* What the user can type into a feedback box; trim() of the blank ones is ''
Feedbacks == {"", " ", "tighten"}
Trim(feedback) == IF feedback = " " THEN "" ELSE feedback

HandleReviseOutline(feedback) ==
  IF bookDetails = Null \/ bookOutline = Null
  THEN UNCHANGED vars
  ELSE /\ StartCall([kind |-> "reviseOutline", details |-> bookDetails,
                      feedback |-> feedback], Overlap + 1, bookDetails)
       /\ Render(SavedState, FALSE, TRUE, NoError, draft, Overlap + 1)
       /\ UNCHANGED <<hasDraft, revisionTimer, approveCalls>>

\* As ClickReviseOutline, but the feedback is passed on whatever it is
ClickReviseOutlineUnchecked ==
  /\ OutlineViewShown /\ Interactive
  /\ \E feedback \in Feedbacks : HandleReviseOutline(feedback)

\* OutlineView.handleRevise
ClickReviseOutline ==
  /\ OutlineViewShown /\ Interactive
  /\ \E feedback \in Feedbacks :
       IF Trim(feedback) # "" THEN HandleReviseOutline(feedback) ELSE UNCHANGED vars

OutlineRevised(i, outline) ==
  /\ pending[i].kind = "reviseOutline"
  /\ pending' = RemoveAt(pending, i)
  /\ Render([SavedState EXCEPT !.bookOutline = outline], FALSE, FALSE, error, draft, 0)
  /\ UNCHANGED <<hasDraft, revisionTimer, approveCalls>>

OutlineRevisionFailed(i) == HandlerCaught(i, {"reviseOutline"})

(* --------------------------- handleStartWriting ------------------------- *)
HandleStartWriting ==
  IF bookDetails = Null \/ bookOutline = Null
  THEN UNCHANGED vars
  ELSE /\ StartCall([kind |-> "startWriting",
                      details |-> bookDetails, outline |-> bookOutline], Overlap,
                 bookDetails)
       /\ Render(SavedState, FALSE, TRUE, NoError, draft, Overlap)
       /\ UNCHANGED <<hasDraft, revisionTimer, approveCalls>>

ClickManualMode == OutlineViewShown /\ Interactive /\ HandleStartWriting

\* As FirstPageWritten, but the first page is stored in bookContent at once
FirstPageWrittenAndStored(i) ==
  /\ pending[i].kind = "startWriting"
  /\ WritePageCanAnswer(pending[i].outline, 0)
  /\ pending' = RemoveAt(pending, i)
  /\ Render([SavedState EXCEPT
               !.currentPageContent = WritePageAnswer(0, 0),
               !.currentChapterIndex = 0, !.currentPageIndex = 0,
               !.viewedChapterIndex = 0, !.viewedPageIndex = 0,
               !.bookContent = SetPage(EmptyChapters(pending[i].details.numChapters),
                                       0, 0, WritePageAnswer(0, 0)),
               !.appState = WRITING],
            TRUE, FALSE, error, draft, 0)
  /\ approveCalls' = 0
  /\ UNCHANGED <<hasDraft, revisionTimer>>

FirstPageWritten(i) ==
  /\ pending[i].kind = "startWriting"
  /\ WritePageCanAnswer(pending[i].outline, 0)
  /\ pending' = RemoveAt(pending, i)
  /\ Render([SavedState EXCEPT
               !.currentPageContent = WritePageAnswer(0, 0),
               !.currentChapterIndex = 0, !.currentPageIndex = 0,
               !.viewedChapterIndex = 0, !.viewedPageIndex = 0,
               !.bookContent = EmptyChapters(pending[i].details.numChapters),
               !.appState = WRITING],
            TRUE, FALSE, error, draft, 0)
  /\ approveCalls' = 0
  /\ UNCHANGED <<hasDraft, revisionTimer>>

FirstPageFailed(i) == HandlerCaught(i, {"startWriting"})

(* ---------------- a handler's own call of handleSaveDraft --------------- *)
\* handleStartAutomaticWriting and handleApproveAndContinue call the
\* handleSaveDraft their closure captured, whose state cl is the state of the
\* render in which the handler was invoked; the render that follows then runs
\* the save effect with the new state s.
RenderAfterOwnSave(s, cl, err) ==
  \E o \in SaveOutcomes(cl, draft, 0) :
    Render(s, TRUE, FALSE, IF o[2] THEN ErrSave ELSE err, o[1], IF o[2] THEN 1 ELSE 0)

(* ---------------------- handleStartAutomaticWriting --------------------- *)
HandleStartAutomaticWriting ==
  IF bookDetails = Null \/ bookOutline = Null
  THEN UNCHANGED vars
  ELSE /\ StartCall([kind |-> "autoFront", details |-> bookDetails,
                      outline |-> bookOutline, cl |-> SavedState], Overlap,
                 bookDetails)
       /\ Render(SavedState, FALSE, TRUE, NoError, draft, Overlap)
       /\ UNCHANGED <<hasDraft, revisionTimer, approveCalls>>

ClickAutoWrite == OutlineViewShown /\ Interactive /\ HandleStartAutomaticWriting

AutoFrontGenerated(i) ==
  /\ pending[i].kind = "autoFront"
  /\ pending' = [pending EXCEPT ![i] =
       [kind |-> "autoPage", details |-> pending[i].details, outline |-> pending[i].outline,
        cl |-> pending[i].cl, frontMatterData |-> FrontMatterAnswer,
        allContent |-> EmptyChapters(pending[i].details.numChapters),
        previousPage |-> NullCell, chapIdx |-> 0, pageIdx |-> 0]]
  /\ UNCHANGED <<appState, bookDetails, bookOutline, bookContent, bookMatter,
                 currentPageContent, currentChapterIndex, currentPageIndex,
                 viewedChapterIndex, viewedPageIndex, isLoading, error, hasDraft,
                 draft, revisionTimer, disturbances, approveCalls>>

\* As AutoPageWritten, but the first page of a chapter is requested without
\* the last page of the chapter before it
AutoPageWrittenForgetsAtChapterEnd(i) ==
  LET call == pending[i]
      pageContent == WritePageAnswer(call.chapIdx, call.pageIdx)
      allContent == SetPage(call.allContent, call.chapIdx, call.pageIdx, pageContent)
      lastOfChapter == call.pageIdx + 1 >= call.details.numPagesPerChapter
      lastOfBook == lastOfChapter /\ call.chapIdx + 1 >= call.details.numChapters
  IN /\ call.kind = "autoPage"
     /\ WritePageCanAnswer(call.outline, call.chapIdx)
     /\ UNCHANGED <<hasDraft, revisionTimer, approveCalls>>
     /\ IF lastOfBook
        THEN /\ pending' = [pending EXCEPT ![i] =
                  [kind |-> "autoBack", cl |-> call.cl,
                   frontMatterData |-> call.frontMatterData]]
             /\ Render([SavedState EXCEPT !.bookContent = allContent],
                       TRUE, isLoading, error, draft, 0)
        ELSE /\ pending' = [pending EXCEPT ![i] =
                  [call EXCEPT !.allContent = allContent,
                               !.previousPage = IF lastOfChapter THEN NullCell ELSE pageContent,
                               !.chapIdx = IF lastOfChapter THEN @ + 1 ELSE @,
                               !.pageIdx = IF lastOfChapter THEN 0 ELSE @ + 1]]
             /\ UNCHANGED <<appState, bookDetails, bookOutline, bookContent, bookMatter,
                            currentPageContent, currentChapterIndex, currentPageIndex,
                            viewedChapterIndex, viewedPageIndex, isLoading, error, draft,
                            disturbances, approveCalls>>

\* One iteration of the inner loop; after the last page setBookContent(allContent)
\* is called and generateBackMatter is awaited.
AutoPageWritten(i) ==
  LET call == pending[i]
      pageContent == WritePageAnswer(call.chapIdx, call.pageIdx)
      allContent == SetPage(call.allContent, call.chapIdx, call.pageIdx, pageContent)
      lastOfChapter == call.pageIdx + 1 >= call.details.numPagesPerChapter
      lastOfBook == lastOfChapter /\ call.chapIdx + 1 >= call.details.numChapters
  IN /\ call.kind = "autoPage"
     /\ WritePageCanAnswer(call.outline, call.chapIdx)
     /\ UNCHANGED <<hasDraft, revisionTimer, approveCalls>>
     /\ IF lastOfBook
        THEN /\ pending' = [pending EXCEPT ![i] =
                  [kind |-> "autoBack", cl |-> call.cl,
                   frontMatterData |-> call.frontMatterData]]
             /\ Render([SavedState EXCEPT !.bookContent = allContent],
                       TRUE, isLoading, error, draft, 0)
        ELSE /\ pending' = [pending EXCEPT ![i] =
                  [call EXCEPT !.allContent = allContent,
                               !.previousPage = pageContent,
                               !.chapIdx = IF lastOfChapter THEN @ + 1 ELSE @,
                               !.pageIdx = IF lastOfChapter THEN 0 ELSE @ + 1]]
             /\ UNCHANGED <<appState, bookDetails, bookOutline, bookContent, bookMatter,
                            currentPageContent, currentChapterIndex, currentPageIndex,
                            viewedChapterIndex, viewedPageIndex, isLoading, error, draft,
                            disturbances, approveCalls>>

AutoBackGenerated(i) ==
  /\ pending[i].kind = "autoBack"
  /\ pending' = RemoveAt(pending, i)
  /\ RenderAfterOwnSave(
       [SavedState EXCEPT !.bookMatter = Spread(pending[i].frontMatterData, BackMatterAnswer),
                          !.appState = FINAL],
       pending[i].cl, error)
  /\ UNCHANGED <<hasDraft, revisionTimer, approveCalls>>

AutoWriteFailed(i) == HandlerCaught(i, {"autoFront", "autoPage", "autoBack"})

(* ----------------------------- handleRevisePage ------------------------- *)
HandleRevisePage(feedback) ==
  IF bookDetails = Null \/ ~Truthy(currentPageContent)
  THEN UNCHANGED vars
  ELSE /\ StartCall(
            [kind |-> "revisePage", currentPageContent |-> currentPageContent,
             feedback |-> feedback, bookContent |-> bookContent,
             viewedChapterIndex |-> viewedChapterIndex, viewedPageIndex |-> viewedPageIndex],
            Overlap + 1, bookDetails)
       /\ Render(SavedState, FALSE, TRUE, NoError, draft, Overlap + 1)
       /\ UNCHANGED <<hasDraft, revisionTimer, approveCalls>>

\* WritingView.handleRevise
ClickRevisePage ==
  /\ WritingViewShown /\ Interactive
  /\ \E feedback \in Feedbacks :
       IF Trim(feedback) # "" THEN HandleRevisePage(feedback) ELSE UNCHANGED vars

PageRevised(i) ==
  LET call == pending[i]
      revisedContent == RevisePageAnswer(call.currentPageContent)
  IN /\ call.kind = "revisePage"
     /\ pending' = RemoveAt(pending, i)
     /\ Render([SavedState EXCEPT
                  !.bookContent = SetPage(call.bookContent, call.viewedChapterIndex,
                                          call.viewedPageIndex, revisedContent),
                  !.currentPageContent = revisedContent],
               TRUE, FALSE, error, draft, 0)
     /\ UNCHANGED <<hasDraft, revisionTimer, approveCalls>>

PageRevisionFailed(i) == HandlerCaught(i, {"revisePage"})

(* ------------------------- handleApproveAndContinue --------------------- *)
\* The cursor after (chapterIndex, pageIndex)
NextPosition(details, chapterIndex, pageIndex) ==
  IF pageIndex + 1 >= details.numPagesPerChapter
  THEN <<chapterIndex + 1, 0>>
  ELSE <<chapterIndex, pageIndex + 1>>

\* As PastEndOfBook, but off by one
PastEndOfBookStrict(details, nextChapterIndex) == nextChapterIndex > details.numChapters

\* if (nextChapterIndex >= bookDetails.numChapters)
PastEndOfBook(details, nextChapterIndex) == nextChapterIndex >= details.numChapters

\* As HandleApproveAndContinue, but the page handed to writePage as the
\* previous one is the page stored before the buffer was committed
HandleApproveAndContinueStalePrevious ==
  IF bookDetails = Null \/ bookOutline = Null
  THEN UNCHANGED vars
  ELSE
    LET newBookContent ==
          SetPage(bookContent, currentChapterIndex, currentPageIndex, currentPageContent)
        next == NextPosition(bookDetails, currentChapterIndex, currentPageIndex)
        s == [SavedState EXCEPT !.bookContent = newBookContent]
    IN /\ UNCHANGED <<hasDraft, revisionTimer>>
       /\ approveCalls' = (IF approveCalls >= 0 THEN approveCalls + 1 ELSE -1)
       /\ IF PastEndOfBook(bookDetails, next[1])
          THEN /\ StartCall(
                    [kind |-> "finalFront", newBookContent |-> newBookContent,
                     cl |-> SavedState], Overlap, bookDetails)
               /\ Render(s, TRUE, TRUE, error, draft, Overlap)
          ELSE /\ StartCall(
                    [kind |-> "writeNext", outline |-> bookOutline,
                     bookContent |-> bookContent,
                     nextChapterIndex |-> next[1], nextPageIndex |-> next[2],
                     previousPageContent |->
                       PageOrEmpty(bookContent, currentChapterIndex, currentPageIndex)],
                    Overlap, bookDetails)
               /\ Render(s, TRUE, TRUE, NoError, draft, Overlap)

\* Up to the first await: the buffer is stored at the write cursor, then either
\* the final sections or the next page are requested.
HandleApproveAndContinue ==
  IF bookDetails = Null \/ bookOutline = Null
  THEN UNCHANGED vars
  ELSE
    LET newBookContent ==
          SetPage(bookContent, currentChapterIndex, currentPageIndex, currentPageContent)
        next == NextPosition(bookDetails, currentChapterIndex, currentPageIndex)
        s == [SavedState EXCEPT !.bookContent = newBookContent]
    IN /\ UNCHANGED <<hasDraft, revisionTimer>>
       /\ approveCalls' = (IF approveCalls >= 0 THEN approveCalls + 1 ELSE -1)
       /\ IF PastEndOfBook(bookDetails, next[1])
          THEN /\ StartCall(
                    [kind |-> "finalFront", newBookContent |-> newBookContent,
                     cl |-> SavedState], Overlap, bookDetails)
               /\ Render(s, TRUE, TRUE, error, draft, Overlap)
          ELSE /\ StartCall(
                    [kind |-> "writeNext", outline |-> bookOutline,
                     bookContent |-> bookContent,
                     nextChapterIndex |-> next[1], nextPageIndex |-> next[2],
                     previousPageContent |-> currentPageContent], Overlap, bookDetails)
               /\ Render(s, TRUE, TRUE, NoError, draft, Overlap)

\* The approve button is disabled unless the latest page is the one viewed
IsViewingLatestPage ==
  viewedChapterIndex = currentChapterIndex /\ viewedPageIndex = currentPageIndex

ClickApproveAndContinue ==
  /\ WritingViewShown /\ Interactive /\ IsViewingLatestPage
  /\ HandleApproveAndContinue

\* As NextPageWritten, but the write cursor is left where it was
NextPageWrittenKeepsWriteCursor(i) ==
  LET call == pending[i]
  IN /\ call.kind = "writeNext"
     /\ WritePageCanAnswer(call.outline, call.nextChapterIndex)
     /\ pending' = RemoveAt(pending, i)
     /\ Render([SavedState EXCEPT
                  !.currentPageContent = WritePageAnswer(call.nextChapterIndex, call.nextPageIndex),
                  !.viewedChapterIndex = call.nextChapterIndex,
                  !.viewedPageIndex = call.nextPageIndex],
               FALSE, FALSE, error, draft, 0)
     /\ UNCHANGED <<hasDraft, revisionTimer, approveCalls>>

NextPageWritten(i) ==
  LET call == pending[i]
  IN /\ call.kind = "writeNext"
     /\ WritePageCanAnswer(call.outline, call.nextChapterIndex)
     /\ pending' = RemoveAt(pending, i)
     /\ Render([SavedState EXCEPT
                  !.currentPageContent = WritePageAnswer(call.nextChapterIndex, call.nextPageIndex),
                  !.currentChapterIndex = call.nextChapterIndex,
                  !.currentPageIndex = call.nextPageIndex,
                  !.viewedChapterIndex = call.nextChapterIndex,
                  !.viewedPageIndex = call.nextPageIndex],
               FALSE, FALSE, error, draft, 0)
     /\ UNCHANGED <<hasDraft, revisionTimer, approveCalls>>

NextPageFailed(i) == HandlerCaught(i, {"writeNext"})

FinalFrontGenerated(i) ==
  /\ pending[i].kind = "finalFront"
  /\ pending' = [pending EXCEPT ![i] =
       [kind |-> "finalBack", cl |-> pending[i].cl, frontData |-> FrontMatterAnswer]]
  /\ UNCHANGED <<appState, bookDetails, bookOutline, bookContent, bookMatter,
                 currentPageContent, currentChapterIndex, currentPageIndex,
                 viewedChapterIndex, viewedPageIndex, isLoading, error, hasDraft,
                 draft, revisionTimer, disturbances, approveCalls>>

FinalBackGenerated(i) ==
  /\ pending[i].kind = "finalBack"
  /\ pending' = RemoveAt(pending, i)
  /\ RenderAfterOwnSave(
       [SavedState EXCEPT !.bookMatter = Spread(pending[i].frontData, BackMatterAnswer),
                          !.appState = FINAL],
       pending[i].cl, error)
  /\ UNCHANGED <<hasDraft, revisionTimer, approveCalls>>

\* The final branch awaits outside any try: a rejection ends the handler there
FinalSectionsFailed(i) ==
  /\ pending[i].kind \in {"finalFront", "finalBack"}
  /\ pending' = RemoveAt(pending, i)
  /\ approveCalls' = -1
  /\ UNCHANGED <<appState, bookDetails, bookOutline, bookContent, bookMatter,
                 currentPageContent, currentChapterIndex, currentPageIndex,
                 viewedChapterIndex, viewedPageIndex, isLoading, error, hasDraft,
                 draft, revisionTimer, disturbances>>

(* ------------------------------ handleNavigate -------------------------- *)
\* As HandleNavigate, but without the test that stops at the write cursor
HandleNavigateUnclamped(direction) ==
  IF bookDetails = Null
  THEN UNCHANGED vars
  ELSE
    LET stepped ==
          IF direction = "next"
          THEN IF viewedPageIndex + 1 >= bookDetails.numPagesPerChapter
               THEN <<viewedChapterIndex + 1, 0>>
               ELSE <<viewedChapterIndex, viewedPageIndex + 1>>
          ELSE IF viewedPageIndex - 1 < 0
               THEN <<viewedChapterIndex - 1, bookDetails.numPagesPerChapter - 1>>
               ELSE <<viewedChapterIndex, viewedPageIndex - 1>>
        newViewedChapter == stepped[1]
        newViewedPage == stepped[2]
    IN IF newViewedChapter < 0
       THEN UNCHANGED vars
       ELSE /\ Render([SavedState EXCEPT
                         !.viewedChapterIndex = newViewedChapter,
                         !.viewedPageIndex = newViewedPage,
                         !.currentPageContent =
                            PageOrEmpty(bookContent, newViewedChapter, newViewedPage)],
                      FALSE, isLoading, error, draft, 0)
            /\ UNCHANGED <<hasDraft, pending, revisionTimer, approveCalls>>

HandleNavigate(direction) ==
  IF bookDetails = Null
  THEN UNCHANGED vars
  ELSE
    LET stepped ==
          IF direction = "next"
          THEN IF viewedPageIndex + 1 >= bookDetails.numPagesPerChapter
               THEN <<viewedChapterIndex + 1, 0>>
               ELSE <<viewedChapterIndex, viewedPageIndex + 1>>
          ELSE IF viewedPageIndex - 1 < 0
               THEN <<viewedChapterIndex - 1, bookDetails.numPagesPerChapter - 1>>
               ELSE <<viewedChapterIndex, viewedPageIndex - 1>>
        newViewedChapter == stepped[1]
        newViewedPage == stepped[2]
        isNavigatingTooFar ==
          \/ newViewedChapter > currentChapterIndex
          \/ (newViewedChapter = currentChapterIndex /\ newViewedPage > currentPageIndex)
    IN IF isNavigatingTooFar \/ newViewedChapter < 0
       THEN UNCHANGED vars
       ELSE /\ Render([SavedState EXCEPT
                         !.viewedChapterIndex = newViewedChapter,
                         !.viewedPageIndex = newViewedPage,
                         !.currentPageContent =
                            PageOrEmpty(bookContent, newViewedChapter, newViewedPage)],
                      FALSE, isLoading, error, draft, 0)
            /\ UNCHANGED <<hasDraft, pending, revisionTimer, approveCalls>>

IsFirstPageOfBook == viewedChapterIndex = 0 /\ viewedPageIndex = 0

ClickPrevious ==
  /\ WritingViewShown /\ Interactive /\ ~IsFirstPageOfBook
  /\ HandleNavigate("prev")

ClickNext ==
  /\ WritingViewShown /\ Interactive /\ ~IsViewingLatestPage
  /\ HandleNavigate("next")

(* ---------------------------- handleFinalRevision ----------------------- *)
\* Answers of reviseFullBook: a partial BookMatter and a list of page changes.
\* chapterIndex and pageIndex are whatever integers the model returned.
RevisedMatters ==
  { [f \in {} |-> "revised"],
    [f \in {"copyright", "conclusion"} |-> "revised"] }

Change(c, p) ==
  [chapterIndex |-> c, pageIndex |-> p,
   newPageContent |-> [src |-> "f", c |-> c, p |-> p, rev |-> 0]]

RevisedContents(details) ==
  LET n == details.numChapters
      m == details.numPagesPerChapter
  IN { << >>,
       <<Change(0, 0)>>,
       <<Change(0, 0), Change(n - 1, m - 1)>>,
       <<Change(0, m + 1)>>,
       <<Change(n, 0)>> }

RECURSIVE ApplyChanges(_, _)
\* revisedContent.forEach(change => { if (newContent[c]) newContent[c][p] = text })
ApplyChanges(content, revisedContent) ==
  IF revisedContent = << >>
  THEN content
  ELSE LET change == Head(revisedContent)
       IN ApplyChanges(
            IF change.chapterIndex >= 0 /\ change.chapterIndex < Len(content)
            THEN SetPage(content, change.chapterIndex, change.pageIndex, change.newPageContent)
            ELSE content,
            Tail(revisedContent))

HandleFinalRevision(feedback) ==
  IF bookDetails = Null \/ bookOutline = Null \/ bookMatter = Null
  THEN UNCHANGED vars
  ELSE /\ StartCall(
            [kind |-> "reviseFullBook", details |-> bookDetails, feedback |-> feedback,
             bookMatter |-> bookMatter, bookContent |-> bookContent], Overlap + 1,
            bookDetails)
       /\ Render(SavedState, FALSE, TRUE, NoError, draft, Overlap + 1)
       /\ UNCHANGED <<hasDraft, revisionTimer, approveCalls>>

\* FinalBookView.handleRevise
ClickSubmitFinalRevisions ==
  /\ FinalBookViewShown /\ Interactive
  /\ \E feedback \in Feedbacks :
       IF Trim(feedback) # "" THEN HandleFinalRevision(feedback) ELSE UNCHANGED vars

\* The flag is cleared by a timer 1500 ms later, not by the handler
FullBookRevised(i, revisedMatter, revisedContent) ==
  LET call == pending[i]
  IN /\ call.kind = "reviseFullBook"
     /\ ReviseFullBookCanAnswer(call.bookContent)
     /\ pending' = RemoveAt(pending, i)
     /\ revisionTimer' = TRUE
     /\ Render([SavedState EXCEPT
                  !.bookMatter = Spread(call.bookMatter, revisedMatter),
                  !.bookContent = ApplyChanges(call.bookContent, revisedContent)],
               TRUE, isLoading, error, draft, 0)
     /\ UNCHANGED <<hasDraft, approveCalls>>

\* catch: handleError only, there is no finally
FullBookRevisionFailed(i) == HandlerCaught(i, {"reviseFullBook"})

RevisionTimerFires ==
  /\ revisionTimer
  /\ revisionTimer' = FALSE
  /\ isLoading' = FALSE
  /\ UNCHANGED <<appState, bookDetails, bookOutline, bookContent, bookMatter,
                 currentPageContent, currentChapterIndex, currentPageIndex,
                 viewedChapterIndex, viewedPageIndex, error, hasDraft,
                 draft, pending, disturbances, approveCalls>>

(* --------------------- saving by hand and by the timer ------------------ *)
\* handleSaveDraft of the current render
HandleSaveDraft ==
  /\ \E o \in SaveOutcomes(SavedState, draft, 0) :
       /\ draft' = o[1]
       /\ isLoading' = (IF o[2] THEN FALSE ELSE isLoading)
       /\ error' = (IF o[2] THEN ErrSave ELSE error)
       /\ disturbances' = disturbances + (IF o[2] THEN 1 ELSE 0)
  /\ UNCHANGED <<appState, bookDetails, bookOutline, bookContent, bookMatter,
                 currentPageContent, currentChapterIndex, currentPageIndex,
                 viewedChapterIndex, viewedPageIndex, hasDraft,
                 pending, revisionTimer, approveCalls>>

ClickSaveDraft == WritingViewShown /\ Interactive /\ HandleSaveDraft

\* The 120 s interval exists while appState is WRITING, whatever is in flight
AutoSaveTick == appState = WRITING /\ HandleSaveDraft

(* ------------------------------ handleLoadDraft ------------------------- *)
\* As HandleLoadDraft, but a corrupt entry is left in the store
HandleLoadDraftKeepsCorruptEntry ==
  IF draft = Absent
  THEN UNCHANGED vars
  ELSE IF ParseThrows(draft)
  THEN /\ hasDraft' = FALSE
       /\ Render(SavedState, FALSE, FALSE, ErrCorrupt, draft, 0)
       /\ UNCHANGED <<pending, revisionTimer, approveCalls>>
  ELSE /\ hasDraft' = FALSE
       /\ Render(Parse(draft), TRUE, isLoading, error, draft, 0)
       /\ approveCalls' = -1
       /\ UNCHANGED <<pending, revisionTimer>>

HandleLoadDraft ==
  IF draft = Absent
  THEN UNCHANGED vars
  ELSE IF ParseThrows(draft)
  THEN /\ hasDraft' = FALSE
       /\ Render(SavedState, FALSE, FALSE, ErrCorrupt, Absent, 0)
       /\ UNCHANGED <<pending, revisionTimer, approveCalls>>
  ELSE /\ hasDraft' = FALSE
       /\ Render(Parse(draft), TRUE, isLoading, error, draft, 0)
       /\ approveCalls' = -1
       /\ UNCHANGED <<pending, revisionTimer>>

ClickResume == SetupFormShown /\ hasDraft /\ Interactive /\ HandleLoadDraft

(* ------------------------------ handleStartOver ------------------------- *)
HandleStartOver ==
  /\ hasDraft' = FALSE
  /\ Render(InitialState, TRUE, isLoading, NoError, Absent, 0)
  /\ approveCalls' = -1
  /\ UNCHANGED <<pending, revisionTimer>>

ClickStartOver == FinalBookViewShown /\ Interactive /\ HandleStartOver

\* The close button of the error banner
DismissError ==
  /\ error # NoError /\ Interactive
  /\ error' = NoError
  /\ UNCHANGED <<appState, bookDetails, bookOutline, bookContent, bookMatter,
                 currentPageContent, currentChapterIndex, currentPageIndex,
                 viewedChapterIndex, viewedPageIndex, isLoading, hasDraft,
                 draft, pending, revisionTimer, disturbances, approveCalls>>

(* -------------------------------- Next ---------------------------------- *)
GeneratorAnswers ==
  \E i \in DOMAIN pending :
    \/ /\ pending[i].kind = "generateOutline"
       /\ \E o \in OutlineAnswers("generated", pending[i].details) : OutlineGenerated(i, o)
    \/ /\ pending[i].kind = "reviseOutline"
       /\ \E o \in OutlineAnswers("revised", pending[i].details) : OutlineRevised(i, o)
    \/ FirstPageWritten(i)
    \/ AutoFrontGenerated(i)
    \/ AutoPageWritten(i)
    \/ AutoBackGenerated(i)
    \/ PageRevised(i)
    \/ NextPageWritten(i)
    \/ FinalFrontGenerated(i)
    \/ FinalBackGenerated(i)
    \/ /\ pending[i].kind = "reviseFullBook"
       /\ \E rm \in RevisedMatters : \E rc \in RevisedContents(pending[i].details) :
            FullBookRevised(i, rm, rc)

GeneratorFails ==
  \E i \in DOMAIN pending :
    \/ OutlineGenerationFailed(i)
    \/ OutlineRevisionFailed(i)
    \/ FirstPageFailed(i)
    \/ AutoWriteFailed(i)
    \/ PageRevisionFailed(i)
    \/ NextPageFailed(i)
    \/ FinalSectionsFailed(i)
    \/ FullBookRevisionFailed(i)

Next ==
  \/ Reload
  \/ ClickGenerateOutline
  \/ ClickReviseOutline
  \/ ClickManualMode
  \/ ClickAutoWrite
  \/ ClickRevisePage
  \/ ClickApproveAndContinue
  \/ ClickPrevious
  \/ ClickNext
  \/ ClickSubmitFinalRevisions
  \/ ClickSaveDraft
  \/ AutoSaveTick
  \/ ClickResume
  \/ ClickStartOver
  \/ DismissError
  \/ RevisionTimerFires
  \/ GeneratorAnswers
  \/ GeneratorFails

Spec == Init /\ [][Next]_vars

(* ============================ properties ================================ *)
\* (c1, p1) <= (c2, p2), chapter first, then page
CursorLeq(c1, p1, c2, p2) == c1 < c2 \/ (c1 = c2 /\ p1 <= p2)

\* C1: in every reachable state the view cursor is at or before the write
\* cursor in chapter-major, page-minor order.
C1_ViewCursorNeverLeads ==
  CursorLeq(viewedChapterIndex, viewedPageIndex, currentChapterIndex, currentPageIndex)

\* The view cursor lags: an earlier page of a later-reached chapter is on screen
\* and asking for the next page would stay within the written part.
C1_ViewCursorLags ==
  /\ appState = WRITING
  /\ currentChapterIndex > 0 \/ currentPageIndex > 0
  /\ ~IsViewingLatestPage
  /\ C1_ViewCursorNeverLeads

\* C2: approveAndContinue either commits exactly one page and advances the write
\* cursor by exactly one position, or, when the generator call fails, leaves
\* bookContent, the write cursor and the view cursor as they were when it was
\* invoked and shows an error.  Stated for runs without any disturbance, where
\* the bookContent the handler captured is the bookContent before the call.
C2_ApproveIsAtomic ==
  [][\A i \in DOMAIN pending :
       /\ (NextPageWritten(i) /\ disturbances' = 0) =>
            /\ bookContent' = SetPage(pending[i].bookContent, currentChapterIndex,
                                      currentPageIndex, pending[i].previousPageContent)
            /\ <<currentChapterIndex', currentPageIndex'>> =
                 NextPosition(bookDetails, currentChapterIndex, currentPageIndex)
       /\ (NextPageFailed(i) /\ disturbances' = 0) =>
            /\ bookContent' = pending[i].bookContent
            /\ UNCHANGED <<currentChapterIndex, currentPageIndex,
                           viewedChapterIndex, viewedPageIndex>>
            /\ error' # NoError]_vars

\* The write cursor is on the last page of the last chapter
AtLastPage ==
  /\ bookDetails # Null
  /\ currentChapterIndex = bookDetails.numChapters - 1
  /\ currentPageIndex = bookDetails.numPagesPerChapter - 1

\* The suspended handlers that are waiting for writePage
WritePageCalls(calls) ==
  { i \in DOMAIN calls : calls[i].kind \in {"startWriting", "autoPage", "writeNext"} }

FullShape(content, details) ==
  /\ Len(content) = details.numChapters
  /\ \A i \in DOMAIN content : Len(content[i]) = details.numPagesPerChapter

\* C4: for a book of N chapters of M pages, once handleStartWriting has
\* succeeded and while every generator call succeeds, the phase is Writing
\* through the first N*M - 1 invocations of approveAndContinue and is Final once
\* the (N*M)-th has run to its end, with bookContent N chapters of M pages.
C4_FinalExactlyAtLastApprove ==
  (approveCalls >= 0 /\ bookDetails # Null) =>
    LET total == bookDetails.numChapters * bookDetails.numPagesPerChapter
    IN /\ approveCalls < total => appState = WRITING
       /\ (approveCalls = total /\ pending = << >>) =>
            (appState = FINAL /\ FullShape(bookContent, bookDetails))

\* C4 restricted to runs without any disturbance
C4_FinalExactlyAtLastApproveUndisturbed ==
  disturbances = 0 => C4_FinalExactlyAtLastApprove

\* A book of more than one page written by hand with every call answered
C4_WrittenByHand ==
  /\ approveCalls > 1
  /\ disturbances = 0
  /\ bookDetails # Null
  /\ approveCalls = bookDetails.numChapters * bookDetails.numPagesPerChapter
  /\ pending = << >>
  /\ appState = FINAL
  /\ FullShape(bookContent, bookDetails)

\* C5: no step moves the phase to an earlier one, except handleStartOver and a
\* reload of the page, which begin again at Setup.
C5_PhaseOnlyMovesForward ==
  [][appState' >= appState \/ ClickStartOver \/ Reload]_vars

\* C6: at most one generator call is outstanding at any time, and no handler
\* starts a call while the in-flight flag is set.
C6_AtMostOneCallOutstanding ==
  [][/\ Len(pending) <= 1
     /\ Len(pending') > Len(pending) => ~isLoading]_vars

\* C7: when a generator call fails, in any handler, an error message is shown
\* and the in-flight flag is cleared, at once or by what is still outstanding
\* (another suspended handler, the timer of handleFinalRevision).
C7_FailureSurfacesAndClearsFlag ==
  [][GeneratorFails =>
       /\ error' # NoError
       /\ isLoading' => (pending' # << >> \/ revisionTimer')]_vars

\* C8: what handleLoadDraft reads back from a draft that handleSaveDraft has
\* just written is the saved state, field by field.
C8_SaveThenLoadReproduces ==
  (bookDetails # Null /\ bookOutline # Null) =>
    Parse(Stringify(SavedState)) = SavedState

\* The positions a list of changes names
Named(revisedContent) ==
  { <<revisedContent[k].chapterIndex, revisedContent[k].pageIndex>> :
      k \in DOMAIN revisedContent }

\* Every page of `before` that `names` does not name has the same text in `after`
PagesKept(before, after, names) ==
  \A c \in DOMAIN before : \A q \in DOMAIN before[c] :
    <<c - 1, q - 1>> \notin names =>
      /\ c \in DOMAIN after
      /\ q \in DOMAIN after[c]
      /\ after[c][q] = before[c][q]

\* C9: the step that applies a reviseFullBook result leaves every matter field
\* the patch does not name and every page no change names as they were, and
\* leaves the phase and both cursors alone.
C9_RevisionChangesOnlyWhatIsNamed ==
  [][\A i \in DOMAIN pending :
       \A rm \in RevisedMatters :
         pending[i].kind = "reviseFullBook" =>
           \A rc \in RevisedContents(pending[i].details) :
             FullBookRevised(i, rm, rc) =>
               /\ bookMatter # Null
               /\ bookMatter' # Null
               /\ DOMAIN bookMatter' = DOMAIN bookMatter
               /\ \A f \in DOMAIN bookMatter \ DOMAIN rm : bookMatter'[f] = bookMatter[f]
               /\ PagesKept(bookContent, bookContent', Named(rc))
               /\ UNCHANGED <<appState, currentChapterIndex, currentPageIndex,
                              viewedChapterIndex, viewedPageIndex>>]_vars

\* C10: the outline stored when generateOutline or reviseOutline succeeds has
\* exactly as many chapters as the numChapters of the details it was asked for.
C10_StoredOutlineHasNumChapters ==
  [][\A i \in DOMAIN pending :
       /\ pending[i].kind = "generateOutline" =>
            \A o \in OutlineAnswers("generated", pending[i].details) :
              OutlineGenerated(i, o) => bookOutline'.nch = bookDetails'.numChapters
       /\ pending[i].kind = "reviseOutline" =>
            \A o \in OutlineAnswers("revised", pending[i].details) :
              OutlineRevised(i, o) => bookOutline'.nch = pending[i].details.numChapters]_vars

\* C11: when generateOutline fails the phase is Setup as before, and bookDetails,
\* bookOutline are what they were, and the draft store still holds its entry if
\* it held one when the operation was invoked.
C11_FailedOutlineMutatesNothing ==
  [][\A i \in DOMAIN pending :
       OutlineGenerationFailed(i) =>
         /\ appState' = appState
         /\ appState' = SETUP
         /\ bookDetails' = bookDetails
         /\ bookOutline' = bookOutline
         /\ pending[i].hadDraft => draft' # Absent]_vars

\* C12: when handleStartAutomaticWriting fails at any of its steps (front
\* matter, a page, back matter) the phase is Outline and bookContent and
\* bookMatter are what they were when it was invoked.  Stated for runs without
\* any disturbance.
C12_FailedAutoWriteIsAllOrNothing ==
  [][\A i \in DOMAIN pending :
       (AutoWriteFailed(i) /\ disturbances' = 0) =>
         /\ appState' = OUTLINE
         /\ bookContent' = pending[i].cl.bookContent
         /\ bookMatter' = pending[i].cl.bookMatter]_vars

\* C13: handleApproveAndContinue invoked in the Writing phase while the view
\* cursor differs from the write cursor does nothing: it starts no generator
\* call and leaves bookContent, the page buffer and both cursors as they are.
\* Stated for runs without any disturbance.
C13_ApproveRejectedOffLatestPage ==
  (WritingViewShown /\ ~IsViewingLatestPage /\ disturbances = 0) =>
    ~ENABLED (/\ HandleApproveAndContinue
              /\ \/ pending' # pending
                 \/ bookContent' # bookContent
                 \/ currentPageContent' # currentPageContent
                 \/ <<currentChapterIndex', currentPageIndex'>> #
                      <<currentChapterIndex, currentPageIndex>>
                 \/ <<viewedChapterIndex', viewedPageIndex'>> #
                      <<viewedChapterIndex, viewedPageIndex>>)

\* What C14 asks of one step of navigate: the write cursor stays; at the
\* boundary (next on the latest page, prev on the first page of the book) the
\* view cursor and the displayed text stay too; anywhere else the view cursor
\* moves to the neighbouring position, wrapping at the end of a chapter.
NavigateAsSpecified(direction) ==
  /\ UNCHANGED <<currentChapterIndex, currentPageIndex>>
  /\ IF (direction = "next" /\ IsViewingLatestPage) \/ (direction = "prev" /\ IsFirstPageOfBook)
     THEN UNCHANGED <<viewedChapterIndex, viewedPageIndex, currentPageContent>>
     ELSE IF direction = "next"
     THEN <<viewedChapterIndex', viewedPageIndex'>> =
            NextPosition(bookDetails, viewedChapterIndex, viewedPageIndex)
     ELSE /\ viewedChapterIndex' >= 0
          /\ viewedPageIndex' \in 0..(bookDetails.numPagesPerChapter - 1)
          /\ NextPosition(bookDetails, viewedChapterIndex', viewedPageIndex') =
               <<viewedChapterIndex, viewedPageIndex>>

\* C14: in the Writing phase handleNavigate, in whatever state it is invoked,
\* moves the view cursor by exactly one position in chapter-major, page-minor
\* order, and changes neither cursor nor the displayed text for 'next' when the
\* view cursor is the write cursor and for 'prev' at (0,0).
C14_NavigateMovesOneOrNothing ==
  WritingViewShown =>
    \A direction \in {"prev", "next"} :
      ~ENABLED (HandleNavigate(direction) /\ ~NavigateAsSpecified(direction))

\* The view cursor has gone back over a chapter boundary, to the last page of
\* the chapter before the one being written
C14_WrappedBackOverChapter ==
  /\ WritingViewShown
  /\ disturbances = 0
  /\ bookDetails.numPagesPerChapter > 1
  /\ currentChapterIndex = 1 /\ currentPageIndex = 0
  /\ viewedChapterIndex = 0
  /\ viewedPageIndex = bookDetails.numPagesPerChapter - 1
  /\ currentPageContent = bookContent[1][viewedPageIndex + 1]

\* C15: after a navigate that moves the view cursor the displayed text is the
\* text bookContent holds for the new view position; the fallback to '' is not
\* taken, also when the view cursor comes back to the write cursor.  Stated for
\* runs without any disturbance.
C15_NavigateShowsStoredPage ==
  [][((ClickPrevious \/ ClickNext) /\ disturbances' = 0) =>
       /\ viewedChapterIndex' + 1 \in DOMAIN bookContent'
       /\ viewedPageIndex' + 1 \in DOMAIN bookContent'[viewedChapterIndex' + 1]
       /\ currentPageContent' = bookContent'[viewedChapterIndex' + 1][viewedPageIndex' + 1]
       /\ currentPageContent' # EmptyText]_vars

\* C16: no revisePage and no reviseOutline call is ever made with feedback that
\* is empty or only white space: the views drop such a submission, so that
\* bookContent, the page buffer and bookOutline stay as they are.
C16_NoRevisionCallWithBlankFeedback ==
  \A i \in DOMAIN pending :
    pending[i].kind \in {"revisePage", "reviseOutline"} => Trim(pending[i].feedback) # ""

\* The outline is on screen, nothing is in flight, and a revision would be
\* requested if blank feedback were passed on to handleReviseOutline
C16_BlankFeedbackCouldBeSubmitted ==
  /\ OutlineViewShown /\ Interactive
  /\ pending = << >>
  /\ ENABLED (HandleReviseOutline(" ") /\ pending' # pending)

\* C17: handleStartOver leaves the phase Setup, the draft store empty, details,
\* outline, content, matter and the page buffer empty and both cursors at (0,0);
\* and the draft store, once empty, gets an entry only in a step after which a
\* book (details and outline) is in the Writing or Final phase.
C17_StartOverEmptiesUntilNextBook ==
  [][/\ ClickStartOver =>
          /\ appState' = SETUP
          /\ draft' = Absent
          /\ bookDetails' = Null /\ bookOutline' = Null /\ bookMatter' = Null
          /\ bookContent' = << >>
          /\ currentPageContent' = EmptyText
          /\ currentChapterIndex' = 0 /\ currentPageIndex' = 0
          /\ viewedChapterIndex' = 0 /\ viewedPageIndex' = 0
     /\ (draft = Absent /\ draft' # Absent) =>
          /\ appState' \in {WRITING, FINAL}
          /\ bookDetails' # Null /\ bookOutline' # Null]_vars

\* C18: when handleLoadDraft finds an entry that JSON.parse rejects, the entry
\* is removed from the draft store, an error is shown, and the phase is Setup
\* as before with every entity and both cursors unchanged.
C18_CorruptDraftIsDiscarded ==
  [][(ClickResume /\ ParseThrows(draft)) =>
       /\ draft' = Absent
       /\ error' # NoError
       /\ appState' = SETUP
       /\ UNCHANGED <<appState, bookDetails, bookOutline, bookContent, bookMatter,
                      currentPageContent, currentChapterIndex, currentPageIndex,
                      viewedChapterIndex, viewedPageIndex>>]_vars

\* A corrupt entry was found on resuming and has been discarded
C18_CorruptDraftFound ==
  /\ error = ErrCorrupt
  /\ draft = Absent
  /\ ~hasDraft
  /\ appState = SETUP

\* A write to the draft store has failed in this step
WriteFailedInStep ==
  disturbances' > disturbances /\ error' = ErrSave /\ ~isLoading'

\* C19: a step that changes the in-memory state and after which a book is in
\* the Writing or Final phase ends, unless a write to the store fails in it,
\* with the store holding the snapshot of the new state; and on runs without
\* any disturbance, whenever a book is in the Writing or Final phase and no
\* operation is in progress, the store holds the snapshot of the state.
C19_StoreFollowsState ==
  /\ [](( /\ appState \in {WRITING, FINAL}
          /\ pending = << >> /\ ~isLoading /\ ~revisionTimer
          /\ disturbances = 0) => draft = Stringify(SavedState))
  /\ [][( /\ appState' \in {WRITING, FINAL}
          /\ bookDetails' # Null /\ bookOutline' # Null
          /\ SavedState' # SavedState
          /\ ~WriteFailedInStep) => draft' = Stringify(SavedState')]_vars

\* A revision of the finished book has been applied and saved
C19_RevisedBookSaved ==
  /\ appState = FINAL
  /\ pending = << >> /\ ~isLoading /\ ~revisionTimer
  /\ bookMatter # Null
  /\ bookMatter["copyright"] = "revised"
  /\ error = NoError
  /\ draft = Stringify(SavedState)

\* C20: a write to the draft store that fails, from the save button or from the
\* 120 s timer, shows a warning and leaves the phase, details, outline, content,
\* matter, page buffer, both cursors and the in-flight flag as they were, also
\* while a generator call is outstanding.  Stated for the first disturbance of
\* a run.
C20_FailedWriteOnlyLosesDurability ==
  [][((ClickSaveDraft \/ AutoSaveTick) /\ disturbances = 0 /\ disturbances' > 0) =>
       /\ error' # NoError
       /\ isLoading' = isLoading
       /\ SavedState' = SavedState]_vars

\* C21: whenever a book is in the Writing or Final phase, bookContent has
\* exactly numChapters chapters and no chapter has more than
\* numPagesPerChapter pages, whatever patches reviseFullBook has returned.
\* Stated for runs with one disturbance at most (one revision requested).
C21_ContentKeepsItsShape ==
  (appState \in {WRITING, FINAL} /\ bookDetails # Null /\ disturbances <= 1) =>
    /\ Len(bookContent) = bookDetails.numChapters
    /\ \A c \in DOMAIN bookContent :
         Len(bookContent[c]) <= bookDetails.numPagesPerChapter

\* What C22 calls well-formed details
WellFormed(d) ==
  /\ d.theme # "" /\ d.audience # "" /\ d.penName # ""
  /\ d.numChapters \in 1..20
  /\ d.numPagesPerChapter \in 1..15

\* C22: no generateOutline call is ever made with malformed details (an empty
\* required text, numChapters outside 1..20, numPagesPerChapter outside 1..15):
\* the form drops such a submission and the phase stays Setup; so the details
\* of a book are well-formed too.
C22_NoOutlineCallWithMalformedDetails ==
  /\ \A i \in DOMAIN pending :
       pending[i].kind = "generateOutline" => WellFormed(pending[i].details)
  /\ bookDetails # Null => WellFormed(bookDetails)

\* A form has been submitted and its outline request has failed; the setup form
\* is on screen again with nothing in flight, and an outline would be requested
\* if malformed details were passed on to handleStartOutlineGeneration
C22_MalformedDetailsCouldBeSubmitted ==
  /\ SetupFormShown /\ Interactive
  /\ pending = << >>
  /\ appState = SETUP /\ error = ErrGenerator
  /\ ENABLED (/\ HandleStartOutlineGeneration(
                   [theme |-> "", audience |-> "text", penName |-> "text",
                    numChapters |-> 0, numPagesPerChapter |-> 1])
              /\ pending' # pending)

\* C23: when handleStartWriting succeeds the phase becomes Writing, bookContent
\* is as many empty chapters as the numChapters of the details whose outline
\* was approved, both cursors are (0,0) and the first page is in the buffer
\* only (bookContent[0][0] is not written); when its writePage call fails the
\* phase, bookContent and the cursors are unchanged (a phase Outline stays
\* Outline).
C23_StartWritingOutcome ==
  [][\A i \in DOMAIN pending :
       /\ FirstPageWritten(i) =>
            /\ appState' = WRITING
            /\ Len(bookContent') = pending[i].details.numChapters
            /\ \A c \in DOMAIN bookContent' : bookContent'[c] = << >>
            /\ currentChapterIndex' = 0 /\ currentPageIndex' = 0
            /\ viewedChapterIndex' = 0 /\ viewedPageIndex' = 0
            /\ currentPageContent' = WritePageAnswer(0, 0)
            /\ PageOrEmpty(bookContent', 0, 0) = EmptyText
       /\ FirstPageFailed(i) =>
            /\ appState = OUTLINE => appState' = OUTLINE
            /\ UNCHANGED <<appState, bookContent, currentChapterIndex, currentPageIndex,
                           viewedChapterIndex, viewedPageIndex>>]_vars

\* Manual writing of a book of two chapters or more has just begun
C23_WritingJustStarted ==
  /\ appState = WRITING /\ bookDetails # Null /\ pending = << >>
  /\ bookDetails.numChapters >= 2
  /\ bookContent = EmptyChapters(bookDetails.numChapters)
  /\ currentChapterIndex = 0 /\ currentPageIndex = 0
  /\ currentPageContent = WritePageAnswer(0, 0)
  /\ approveCalls = 0

\* C24: an approveAndContinue that is not on the last page stores the buffered
\* text at the write cursor and requests the page of the next position, giving
\* the text just stored as the previous page; when that page arrives the write
\* cursor is moved to the requested position, the view cursor is set to the
\* new write cursor and the new page is the buffer (bookContent is not touched
\* again).
C24_ApproveCommitsThenAdvances ==
  /\ [][(ClickApproveAndContinue /\ bookDetails # Null /\ bookOutline # Null
          /\ ~PastEndOfBook(bookDetails,
                NextPosition(bookDetails, currentChapterIndex, currentPageIndex)[1])) =>
         /\ bookContent' = SetPage(bookContent, currentChapterIndex, currentPageIndex,
                                   currentPageContent)
         /\ Len(pending') = Len(pending) + 1
         /\ LET call == pending'[Len(pending')]
            IN /\ call.kind = "writeNext"
               /\ call.previousPageContent =
                    bookContent'[currentChapterIndex + 1][currentPageIndex + 1]
               /\ <<call.nextChapterIndex, call.nextPageIndex>> =
                    NextPosition(bookDetails, currentChapterIndex, currentPageIndex)
         /\ UNCHANGED <<appState, currentChapterIndex, currentPageIndex>>]_vars
  /\ [][\A i \in DOMAIN pending : NextPageWritten(i) =>
         /\ currentChapterIndex' = pending[i].nextChapterIndex
         /\ currentPageIndex' = pending[i].nextPageIndex
         /\ viewedChapterIndex' = currentChapterIndex'
         /\ viewedPageIndex' = currentPageIndex'
         /\ currentPageContent' = WritePageAnswer(currentChapterIndex', currentPageIndex')
         /\ UNCHANGED <<appState, bookContent>>]_vars

\* The first page of the second chapter has just arrived after the approval
\* of the last page of the first chapter
C24_AdvancedIntoSecondChapter ==
  /\ appState = WRITING /\ pending = << >> /\ bookDetails # Null
  /\ currentChapterIndex = 1 /\ currentPageIndex = 0
  /\ viewedChapterIndex = 1 /\ viewedPageIndex = 0
  /\ currentPageContent = WritePageAnswer(1, 0)
  /\ Len(bookContent) >= 1
  /\ Len(bookContent[1]) = bookDetails.numPagesPerChapter
  /\ bookContent[1][bookDetails.numPagesPerChapter] =
       WritePageAnswer(0, bookDetails.numPagesPerChapter - 1)

\* Every page of a book of these details, each as writePage returned it
AllPagesWritten(content, details) ==
  /\ FullShape(content, details)
  /\ \A c \in 0..(details.numChapters - 1) : \A p \in 0..(details.numPagesPerChapter - 1) :
       content[c + 1][p + 1] = WritePageAnswer(c, p)

\* C25: handleStartAutomaticWriting first requests the front matter; when it
\* arrives it requests page (0,0) with previousPage null; each page that
\* arrives is stored at its position and the page of the next position
\* (chapter-major, page-minor) is requested with the page just returned as
\* previousPage, over chapter boundaries too; after the last page bookContent
\* is every page of the numChapters x numPagesPerChapter book and the back
\* matter is requested; when it arrives the phase becomes Final.  No step
\* before that one changes the phase, which is Outline when the handler is
\* invoked from the outline view.
C25_AutoWriteOrder ==
  /\ [][(ClickAutoWrite /\ bookDetails # Null /\ bookOutline # Null) =>
         /\ appState = OUTLINE /\ appState' = OUTLINE
         /\ Len(pending') = Len(pending) + 1
         /\ pending'[Len(pending')].kind = "autoFront"
         /\ pending'[Len(pending')].details = bookDetails]_vars
  /\ [][\A i \in DOMAIN pending : AutoFrontGenerated(i) =>
         /\ pending'[i].kind = "autoPage"
         /\ pending'[i].chapIdx = 0 /\ pending'[i].pageIdx = 0
         /\ pending'[i].previousPage = NullCell
         /\ pending'[i].allContent = EmptyChapters(pending[i].details.numChapters)
         /\ UNCHANGED <<appState, bookContent>>]_vars
  /\ [][\A i \in DOMAIN pending : AutoPageWritten(i) =>
         LET call == pending[i]
             next == NextPosition(call.details, call.chapIdx, call.pageIdx)
         IN /\ appState' = appState
            /\ IF PastEndOfBook(call.details, next[1])
               THEN /\ pending'[i].kind = "autoBack"
                    /\ AllPagesWritten(bookContent', call.details)
               ELSE /\ pending'[i].kind = "autoPage"
                    /\ <<pending'[i].chapIdx, pending'[i].pageIdx>> = next
                    /\ pending'[i].previousPage = WritePageAnswer(call.chapIdx, call.pageIdx)
                    /\ pending'[i].allContent[call.chapIdx + 1][call.pageIdx + 1] =
                         pending'[i].previousPage
                    /\ bookContent' = bookContent]_vars
  /\ [][\A i \in DOMAIN pending : AutoBackGenerated(i) =>
         /\ appState' = FINAL
         /\ bookContent' = bookContent
         /\ Len(pending') = Len(pending) - 1]_vars

\* A book of two chapters has been written automatically, from the outline
\* view to Final
C25_WrittenAutomatically ==
  /\ appState = FINAL /\ bookDetails # Null /\ pending = << >>
  /\ bookDetails.numChapters = 2
  /\ AllPagesWritten(bookContent, bookDetails)
  /\ bookMatter # Null
  /\ approveCalls = -1
  /\ disturbances = 0

\* C26: when revisePage answers, the revised text is stored at the viewed
\* position of bookContent and nowhere else, the outline, the matter, the phase
\* and both cursors are unchanged and no generator call is started; when it
\* fails, nothing of the book changes.  Stated for runs in which the revision
\* is the first disturbance and at most one write to the store fails after it.
C26_RevisionTouchesViewedPageOnly ==
  [][\A i \in DOMAIN pending :
       /\ (PageRevised(i) /\ pending[i].feedback # "" /\ disturbances' <= 2) =>
            /\ bookContent' = SetPage(bookContent, viewedChapterIndex, viewedPageIndex,
                                      RevisePageAnswer(pending[i].currentPageContent))
            /\ pending' = RemoveAt(pending, i)
            /\ UNCHANGED <<appState, bookDetails, bookOutline, bookMatter,
                           currentChapterIndex, currentPageIndex,
                           viewedChapterIndex, viewedPageIndex>>
       /\ (PageRevisionFailed(i) /\ disturbances' <= 2) =>
            UNCHANGED <<appState, bookDetails, bookOutline, bookMatter, bookContent,
                        currentPageContent, currentChapterIndex, currentPageIndex,
                        viewedChapterIndex, viewedPageIndex>>]_vars

\* C27: the text handleApproveAndContinue stores at the write cursor is the
\* text writePage returned for that position (or its revision): moving the
\* view cursor away from the write cursor and back has not replaced the
\* buffer.  Stated for runs without any disturbance.
C27_ApproveCommitsThePageWritten ==
  [][(ClickApproveAndContinue /\ bookDetails # Null /\ bookOutline # Null
        /\ disturbances' = 0) =>
       LET committed == bookContent'[currentChapterIndex + 1][currentPageIndex + 1]
       IN /\ committed = currentPageContent
          /\ committed.src = "w"
          /\ committed.c = currentChapterIndex
          /\ committed.p = currentPageIndex]_vars

\* C28: a snapshot held by the draft store records the phase Writing or Final,
\* whichever call of handleSaveDraft wrote it.  Stated for runs in which at most
\* one write to the store has failed and nothing else has disturbed the run.
C28_StoredPhaseIsWritingOrFinal ==
  ("json" \in DOMAIN draft /\ disturbances <= 1) =>
    draft.json.appState \in {WRITING, FINAL}

\* The positions of a book of these details
Positions(details) ==
  { <<c, p>> : c \in 0..(details.numChapters - 1),
               p \in 0..(details.numPagesPerChapter - 1) }

\* Position a comes before position b, chapter first and page second
Before(a, b) == a[1] < b[1] \/ (a[1] = b[1] /\ a[2] < b[2])

\* bookContent[c][p] has been assigned
SlotSet(content, c, p) ==
  c < Len(content) /\ p < Len(content[c + 1]) /\ content[c + 1][p + 1] # Hole

\* C29: in the Writing phase every position before the write cursor holds a
\* page in bookContent (a text, as bookContent[c]?.[p] || '' tests it) and no
\* position after the write cursor has been assigned.  Stated for runs without
\* any disturbance.
C29_PagesUpToTheWriteCursor ==
  (appState = WRITING /\ bookDetails # Null /\ disturbances = 0) =>
    \A pos \in Positions(bookDetails) :
      LET cur == <<currentChapterIndex, currentPageIndex>>
      IN /\ Before(pos, cur) => Truthy(PageOrEmpty(bookContent, pos[1], pos[2]))
         /\ Before(cur, pos) => ~SlotSet(bookContent, pos[1], pos[2])

\* C30: while a generator call is outstanding the in-flight flag is set: the
\* save effect, the auto-save timer and the reporting of an error do not clear
\* it before the call has come back.  Stated up to the first disturbance of a
\* run.
C30_FlagSetWhileCallOutstanding ==
  (pending # << >> /\ disturbances <= 1) => isLoading
====
